---- MODULE Spec2Model ----
(***************************************************************************)
(* Model of restarter's ProcessManager (main.ts): one supervisor object    *)
(* with its child handle, retry counter and AbortController, the monitor   *)
(* loop of every start() activation, and the callers of the public         *)
(* operations start(), stop() and checkHealth().                           *)
(*                                                                         *)
(* JavaScript runs each handler to its next timer or I/O await without     *)
(* interleaving, so one action is the code between two such awaits.        *)
(***************************************************************************)
EXTENDS Integers, Sequences, FiniteSets, TLC

\* Bounds of the model.
MaxStarts == 2        \* calls of start() by a caller that re-enters it
MaxSpawns == 3        \* children spawned in one run (caps retryCount too)
MaxBudget == 2        \* largest finite maxRetries explored

\* Activations of start().
Starts == 1..MaxStarts

\* HTTP statuses the probed endpoint may answer with.
Statuses == {199, 200, 201, 299, 300}

\* Configurations the constructor may be given (Config, main.ts 6-13).
RetryChoices == {-1} \cup (0..MaxBudget)
NoCodes == [defined |-> FALSE, codes |-> {}]
CodeChoices ==
    {NoCodes} \cup
    {[defined |-> TRUE, codes |-> c] : c \in {{200, 201, 204}, {201, 204}, {300}, {}}}
\* expectedStatusCodes is read by the HTTP probe alone, and healthCheckUrl
\* takes precedence over healthCheckCommand, so the other combinations add
\* no behaviour.
Configs ==
    { [healthCheckUrl |-> TRUE, healthCheckCommand |-> FALSE, maxRetries |-> m,
       expectedStatusCodes |-> e] : m \in RetryChoices, e \in CodeChoices }
    \cup
    { [healthCheckUrl |-> FALSE, healthCheckCommand |-> c, maxRetries |-> m,
       expectedStatusCodes |-> NoCodes] : c \in BOOLEAN, m \in RetryChoices }

VARIABLES
    args,         \* the --max-retries option main() was run with
    config,       \* this.config, fixed at construction
    process,      \* this.process: 0 is null, otherwise an index into procs
    procs,        \* every child spawned so far: [exited, killed]
    retryCount,   \* this.retryCount
    aborted,      \* this.abortController.signal.aborted
    pc,           \* position of each start() activation
    denoExit,     \* "none", or "exit1" after Deno.exit(1)
    ev,           \* the step just taken, as its caller or the console sees it
    unhealthyRun  \* unhealthy monitor probes since the last healthy one

vars == <<args, config, process, procs, retryCount, aborted, pc, denoExit, ev,
          unhealthyRun>>

\* What one probe meets in the outside world: fetch() or command.output()
\* throwing, the response status, the command's success flag.
NoOutcome == [threw |-> FALSE, status |-> 0, success |-> FALSE]
HttpOutcomes ==
    {[threw |-> TRUE, status |-> 0, success |-> FALSE]} \cup
    {[threw |-> FALSE, status |-> s, success |-> FALSE] : s \in Statuses}
CommandOutcomes ==
    {[threw |-> TRUE, status |-> 0, success |-> FALSE]} \cup
    {[threw |-> FALSE, status |-> 0, success |-> b] : b \in BOOLEAN}

Outcomes ==
    IF config.healthCheckUrl THEN HttpOutcomes
    ELSE IF config.healthCheckCommand THEN CommandOutcomes
    ELSE {NoOutcome}

\* Whether checkHealth() awaits I/O (fetch, command.output) before it answers.
ProbeAwaitsIO == config.healthCheckUrl \/ config.healthCheckCommand

\* Response.ok
ResponseOk(status) == status >= 200 /\ status <= 299

\* Variant: the configured set widens the 2xx rule instead of replacing it.
HttpHealthyOrOk(o) ==
    IF o.threw THEN FALSE
    ELSE ResponseOk(o.status) \/
         (config.expectedStatusCodes.defined /\ o.status \in config.expectedStatusCodes.codes)

\* checkHealth(), HTTP branch.
HttpHealthy(o) ==
    IF o.threw THEN FALSE
    ELSE IF config.expectedStatusCodes.defined
         THEN o.status \in config.expectedStatusCodes.codes
         ELSE ResponseOk(o.status)

\* Variant: a command that could be launched counts as healthy, whatever
\* its exit status.
CommandHealthyLaunched(o) == ~o.threw

\* checkHealth(), command branch.
CommandHealthy(o) == IF o.threw THEN FALSE ELSE o.success

\* Variant: the handle is tested and its status is not.
ProcessHealthyNoStatus == process # 0

\* checkHealth(), no probe configured: race of process.status against an
\* already resolved promise; status wins only when the child has exited.
ProcessHealthy ==
    IF process = 0 THEN FALSE ELSE ~procs[process].exited

checkHealth(o) ==
    IF config.healthCheckUrl THEN HttpHealthy(o)
    ELSE IF config.healthCheckCommand THEN CommandHealthy(o)
    ELSE ProcessHealthy

\* this.process.kill() inside try/catch: signals a live child; throws, and
\* is swallowed, when the child has already exited.
KillThrows(p) == procs[p].exited
Kill(p) ==
    IF p = 0 THEN procs
    ELSE IF KillThrows(p) THEN procs
    ELSE [procs EXCEPT ![p].killed = TRUE]

\* Whether the kill() of "if (this.process) { try { kill() } ... }" throws.
KillError(p) == p # 0 /\ KillThrows(p)

\* Variant: kill() is called outside a try block.
KillUncaught(threw) == threw

\* Whether an error thrown by kill() leaves the try block around it: the
\* catch is empty, in stop() and in the restart path alike.
KillSurfaces(threw) == FALSE

\* Variant: the flag is flipped by every call.
AbortToggles(isAborted) == ~isAborted

\* signal.aborted after abortController.abort().
AbortedAfter(isAborted) == TRUE

\* Variant: the loop does not test the signal before it waits.
LoopTopBlind(isAborted) == "waiting"

\* The test at the top of the while loop: return, or start the abortable wait.
LoopTop(isAborted) == IF isAborted THEN "returned" ELSE "waiting"

\* Variant: the wait is a plain delay that the abort event does not end.
AbortWaitersDeaf(pcs) == pcs

\* abort() dispatches the abort event: every monitor suspended in the
\* Promise.race is rejected with "Monitoring stopped" and returns.
AbortWaiters(pcs) ==
    [j \in Starts |-> IF pcs[j] = "waiting" THEN "returned" ELSE pcs[j]]

\* Variant: strict comparison, one restart more than maxRetries.
RetriesExhaustedOffByOne ==
    config.maxRetries # -1 /\ retryCount > config.maxRetries

\* Variant: -1 is compared like any other ceiling.
RetriesExhaustedNoUnlimited == retryCount >= config.maxRetries

\* The retry-exhaustion test of monitor().
RetriesExhausted ==
    config.maxRetries # -1 /\ retryCount >= config.maxRetries

\* The activations a dispatch of the abort event finds in the wait.
Waiters(pcs) == {j \in Starts : pcs[j] = "waiting"}

\* Variant: a healthy probe leaves the counter as it is.
RetryCountAfterNoReset(healthy) == IF healthy THEN retryCount ELSE retryCount + 1

\* retryCount after a monitor probe that stop() does not end.
RetryCountAfter(healthy) == IF healthy THEN 0 ELSE retryCount + 1

\* The steps that are a caller's stop(): completed, or ended by an error.
StopOps == {"stop", "stopRaised"}

\* The record of one step: the operation, the activation it ran in (0 for
\* the caller), the verdict and what the probe met, the handle kill() was
\* called on, the child spawned, the calls of stop() made (for a caller,
\* 2 when the step before was a stop() too), the waits the abort event
\* ended, and retryCount as the step found it.
Event(op, by, verdict, o, killH, spawnH, stops, woke) ==
    [op |-> op, by |-> by, verdict |-> verdict, outcome |-> o,
     kill |-> killH, spawn |-> spawnH, stops |-> stops, woke |-> woke,
     before |-> retryCount]

\* Variant: the catch of start() logs the error and does not exit.
RunningAfterFailure == TRUE

\* Deno.exit(1) in the catch of start() ends every activity of the process.
Running == denoExit = "none"
NewChild == [exited |-> FALSE, killed |-> FALSE]

(***************************************************************************)
(* main(): the --max-retries option. parseArgs keeps it as a string, with  *)
(* the default "-1"; the text is a sequence of characters here.            *)
(***************************************************************************)
MaxArgLen == 2
Chars == {"-", "0", "1", "x"}
DigitChars == {"0", "1"}
Texts == UNION {[1..n -> Chars] : n \in 1..MaxArgLen}

\* The option is absent, or given with a text. A ProcessManager that is
\* constructed directly, as the tests do, has no option behind it.
NoArgs == [given |-> FALSE, text |-> <<>>]
CliArgs == {NoArgs} \cup {[given |-> TRUE, text |-> t] : t \in Texts}

\* args["max-retries"] after parseArgs, with default: { "max-retries": "-1" }.
ArgText(a) == IF a.given THEN a.text ELSE <<"-", "1">>

IsDigits(t) == Len(t) > 0 /\ \A k \in 1..Len(t) : t[k] \in DigitChars
DigitValue(c) == IF c = "0" THEN 0 ELSE 1
RECURSIVE DecimalValue(_)
DecimalValue(t) ==
    IF Len(t) = 0 THEN 0
    ELSE 10 * DecimalValue(SubSeq(t, 1, Len(t) - 1)) + DigitValue(t[Len(t)])

\* Number(text): a decimal literal with an optional minus sign, NaN for
\* any other text.
ToNumber(t) ==
    IF IsDigits(t) THEN [nan |-> FALSE, value |-> DecimalValue(t)]
    ELSE IF Len(t) > 1 /\ t[1] = "-" /\ IsDigits(SubSeq(t, 2, Len(t)))
         THEN [nan |-> FALSE, value |-> 0 - DecimalValue(SubSeq(t, 2, Len(t)))]
    ELSE [nan |-> TRUE, value |-> 0]

\* x || -1: NaN and 0 (and -0) are falsy.
OrMinusOne(n) == IF n.nan \/ n.value = 0 THEN -1 ELSE n.value

\* maxRetries: Number(args["max-retries"]) || -1
MainMaxRetries(a) == OrMinusOne(ToNumber(ArgText(a)))

\* The config main() builds: --expected-status-codes left out, the two
\* health-check options given or not.
MainConfig(a, url, cmd) ==
    [healthCheckUrl |-> url, healthCheckCommand |-> cmd,
     maxRetries |-> MainMaxRetries(a), expectedStatusCodes |-> NoCodes]

\* The state the constructor leaves, for a given configuration.
Constructed(cfg) ==
    /\ config = cfg
    /\ process = 0
    /\ procs = <<>>
    /\ retryCount = 0
    /\ aborted = FALSE
    /\ pc = [i \in Starts |-> "idle"]
    /\ denoExit = "none"
    /\ ev = Event("new", 0, FALSE, NoOutcome, 0, 0, 0, {})
    /\ unhealthyRun = 0

\* The monitor loop reads expectedStatusCodes through the verdict alone, so
\* the supervision runs start from the configurations that leave it unset.
Init ==
    /\ args = NoArgs
    /\ \E cfg \in Configs : ~cfg.expectedStatusCodes.defined /\ Constructed(cfg)

\* Every configuration, for the runs that set the verdict of a probe
\* against what the probe met.
ProbeInit == args = NoArgs /\ \E cfg \in Configs : Constructed(cfg)

\* Variant: start() makes a new AbortController for its monitor.
SignalAtStartFresh(isAborted) == FALSE

\* start() uses the AbortController the constructor made, as it finds it.
SignalAtStart(isAborted) == isAborted

\* start(): startProcess() spawns and begins its 100 ms delay, or spawn()
\* throws and the catch of start() exits the process.
StartCall(i) ==
    /\ Running
    /\ pc[i] = "idle"
    /\ \A j \in Starts : j < i => pc[j] # "idle"
    /\ Len(procs) < MaxSpawns
    /\ \E ok \in BOOLEAN :
        IF ok
        THEN /\ procs' = Append(procs, NewChild)
             /\ process' = Len(procs) + 1
             /\ pc' = [pc EXCEPT ![i] = "starting"]
             /\ denoExit' = denoExit
             /\ ev' = Event("start", i, FALSE, NoOutcome, 0, Len(procs) + 1, 0, {})
        ELSE /\ UNCHANGED <<procs, process>>
             /\ pc' = [pc EXCEPT ![i] = "failed"]
             /\ denoExit' = "exit1"
             /\ ev' = Event("spawnFailed", i, FALSE, NoOutcome, 0, 0, 0, {})
    /\ aborted' = SignalAtStart(aborted)
    /\ UNCHANGED <<args, config, retryCount, unhealthyRun>>

\* The delay(100) of startProcess() ends; control is at the top of the loop.
GraceDone(i) ==
    /\ Running
    /\ pc[i] \in {"starting", "grace"}
    /\ pc' = [pc EXCEPT ![i] = LoopTop(aborted)]
    /\ ev' = Event("graceDone", i, FALSE, NoOutcome, 0, 0, 0, {})
    /\ UNCHANGED <<args, config, process, procs, retryCount, aborted, denoExit,
                   unhealthyRun>>

\* monitor() from the verdict of checkHealth() to its next await.
Decide(i, healthy) ==
    IF healthy
    THEN /\ retryCount' = RetryCountAfter(TRUE)
         /\ unhealthyRun' = 0
         /\ pc' = [pc EXCEPT ![i] = LoopTop(aborted)]
         /\ ev' = Event("healthy", i, TRUE, NoOutcome, 0, 0, 0, {})
         /\ UNCHANGED <<process, procs, aborted, denoExit>>
    ELSE IF RetriesExhausted
    THEN \* await this.stop(); throw new Error("Max retries reached")
         /\ aborted' = AbortedAfter(aborted)
         /\ procs' = Kill(process)
         /\ pc' = [AbortWaiters(pc) EXCEPT ![i] = "failed"]
         /\ denoExit' = "exit1"
         /\ unhealthyRun' = unhealthyRun + 1
         /\ ev' = Event(IF KillSurfaces(KillError(process)) THEN "stopRaised" ELSE "maxRetries",
                        i, FALSE, NoOutcome, process, 0, 1, Waiters(pc) \ {i})
         /\ UNCHANGED <<process, retryCount>>
    ELSE /\ Len(procs) < MaxSpawns
         /\ retryCount' = RetryCountAfter(FALSE)
         /\ unhealthyRun' = unhealthyRun + 1
         /\ aborted' = aborted
         /\ \E ok \in BOOLEAN :
             IF KillSurfaces(KillError(process))
             THEN /\ UNCHANGED <<procs, process>>
                  /\ pc' = [pc EXCEPT ![i] = "failed"]
                  /\ denoExit' = "exit1"
                  /\ ev' = Event("killRaised", i, FALSE, NoOutcome, process, 0, 0, {})
             ELSE IF ok
             THEN /\ procs' = Append(Kill(process), NewChild)
                  /\ process' = Len(procs) + 1
                  /\ pc' = [pc EXCEPT ![i] = "grace"]
                  /\ denoExit' = denoExit
                  /\ ev' = Event("restart", i, FALSE, NoOutcome, process, Len(procs) + 1, 0, {})
             ELSE /\ procs' = Kill(process)
                  /\ process' = process
                  /\ pc' = [pc EXCEPT ![i] = "failed"]
                  /\ denoExit' = "exit1"
                  /\ ev' = Event("restartFailed", i, FALSE, NoOutcome, process, 0, 0, {})

\* The interval timer wins the race: checkHealth() is called. A fetch or a
\* health command is then in flight; the liveness check answers at once.
TimerFires(i) ==
    /\ Running
    /\ pc[i] = "waiting"
    /\ IF ProbeAwaitsIO
       THEN /\ pc' = [pc EXCEPT ![i] = "probing"]
            /\ ev' = Event("probe", i, FALSE, NoOutcome, 0, 0, 0, {})
            /\ UNCHANGED <<process, procs, retryCount, aborted, denoExit, unhealthyRun>>
       ELSE Decide(i, checkHealth(NoOutcome))
    /\ UNCHANGED <<args, config>>

\* The fetch or the health command of a monitor probe completes.
ProbeDone(i) ==
    /\ Running
    /\ pc[i] = "probing"
    /\ \E o \in Outcomes : Decide(i, checkHealth(o))
    /\ UNCHANGED <<args, config>>

\* stop() called from outside the loop.
Stop ==
    /\ Running
    /\ aborted' = AbortedAfter(aborted)
    /\ pc' = AbortWaiters(pc)
    /\ procs' = Kill(process)
    /\ ev' = Event(IF KillSurfaces(KillError(process)) THEN "stopRaised" ELSE "stop",
                   0, FALSE, NoOutcome, process, 0,
                   IF ev.op \in StopOps THEN 2 ELSE 1, Waiters(pc))
    /\ UNCHANGED <<args, config, process, retryCount, denoExit, unhealthyRun>>

\* Variant: a healthy verdict resets the counter wherever it is obtained.
CheckHealthCallResets ==
    /\ Running
    /\ \E o \in Outcomes :
        /\ ev' = Event("checkHealth", 0, checkHealth(o), NoOutcome, 0, 0, 0, {})
        /\ retryCount' = IF checkHealth(o) THEN 0 ELSE retryCount
    /\ UNCHANGED <<args, config, process, procs, aborted, pc, denoExit,
                   unhealthyRun>>

\* checkHealth() called from outside the loop; the caller sees the verdict.
CheckHealthCall ==
    /\ Running
    /\ \E o \in Outcomes :
        ev' = Event("checkHealth", 0, checkHealth(o), NoOutcome, 0, 0, 0, {})
    /\ UNCHANGED <<args, config, process, procs, retryCount, aborted, pc, denoExit,
                   unhealthyRun>>

\* The same call, the record also keeping what fetch() or the health
\* command met, so that the verdict can be set against it.
CheckHealthIO ==
    /\ Running
    /\ \E o \in Outcomes :
        ev' = Event("checkHealth", 0, checkHealth(o), o, 0, 0, 0, {})
    /\ UNCHANGED <<args, config, process, procs, retryCount, aborted, pc, denoExit,
                   unhealthyRun>>

\* A child terminates, by itself or from the signal sent to it, and its
\* status promise resolves.
ChildExit(c) ==
    /\ Running
    /\ ~procs[c].exited
    /\ procs' = [procs EXCEPT ![c].exited = TRUE]
    /\ ev' = Event("childExit", 0, FALSE, NoOutcome, 0, 0, 0, {})
    /\ UNCHANGED <<args, config, process, retryCount, aborted, pc, denoExit,
                   unhealthyRun>>

Monitor ==
    \/ \E i \in Starts : GraceDone(i)
    \/ \E i \in Starts : TimerFires(i)
    \/ \E i \in Starts : ProbeDone(i)

Next ==
    \/ StartCall(1)
    \/ Monitor
    \/ Stop
    \/ CheckHealthCall
    \/ \E c \in 1..Len(procs) : ChildExit(c)

\* The use main() makes of the class: start() is called once on a
\* ProcessManager, while stop() and checkHealth() may be called at any time.
Spec == Init /\ [][Next]_vars

\* A caller that also re-enters start() on the same ProcessManager.
ReentrantNext ==
    \/ \E i \in Starts : StartCall(i)
    \/ Monitor
    \/ Stop
    \/ CheckHealthCall
    \/ \E c \in 1..Len(procs) : ChildExit(c)

ReentrantSpec == Init /\ [][ReentrantNext]_vars

\* checkHealth() as a function of the configuration, the child and what
\* the probe meets.
ProbeNext ==
    \/ StartCall(1)
    \/ CheckHealthIO
    \/ \E c \in 1..Len(procs) : ChildExit(c)

ProbeSpec == ProbeInit /\ [][ProbeNext]_vars

\* The program as main() runs it: the options are parsed, the
\* ProcessManager is constructed and start() is called once; main() calls
\* neither stop() nor checkHealth().
CliInit ==
    \E a \in CliArgs, url \in BOOLEAN, cmd \in BOOLEAN :
        args = a /\ Constructed(MainConfig(a, url, cmd))

CliNext ==
    \/ StartCall(1)
    \/ Monitor
    \/ \E c \in 1..Len(procs) : ChildExit(c)

CliSpec == CliInit /\ [][CliNext]_vars

\* The timers and the I/O of the monitors complete: while some delay, fetch
\* or health command is pending, one of them eventually comes back.
LiveSpec == Init /\ [][Next]_vars /\ WF_vars(Monitor)

(***************************************************************************)
(* Properties                                                              *)
(***************************************************************************)

\* The steps in which a monitor probe comes back unhealthy, and those of
\* them that call startProcess().
RestartOps == {"restart", "restartFailed"}
UnhealthyOps == RestartOps \cup {"maxRetries"}

\* The positions in which an activation is inside monitor().
InMonitor == {"waiting", "probing", "grace"}

\* C1: once stop() has set the cancellation signal, no step of a monitor
\* loop spawns another child, wherever stop() caught the loop.
C1_NoRestartAfterCancel ==
    [][aborted => ev'.op # "restart"]_vars

\* C2: with maxRetries = N >= 0, the unhealthy probes of one run that
\* restart are exactly the first N; the (N+1)-th spawns nothing, calls
\* stop() once and fails the loop with "Max retries reached".
C2_RetryBudget ==
    config.maxRetries >= 0 =>
        /\ unhealthyRun <= config.maxRetries + 1
        /\ ev.op \in UnhealthyOps =>
              /\ ev.op \in RestartOps <=> unhealthyRun <= config.maxRetries
              /\ ev.op = "maxRetries" <=> unhealthyRun = config.maxRetries + 1
        /\ ev.op = "restart" => ev.spawn = Len(procs) /\ ev.stops = 0
        /\ ev.op = "maxRetries" =>
              /\ ev.spawn = 0 /\ ev.stops = 1 /\ aborted
              /\ pc[ev.by] = "failed" /\ denoExit = "exit1"

\* C2 witness: maxRetries = 1, one restart made, the second unhealthy
\* probe in a row has just ended the loop.
C2_Witness ==
    /\ config.maxRetries = 1
    /\ ev.op = "maxRetries"
    /\ unhealthyRun = 2
    /\ Len(procs) = 2

\* C3: with maxRetries = -1 no probe ends the loop for exhausted retries,
\* and every unhealthy monitor probe kills the old child and calls
\* startProcess().
C3_UnlimitedRetries ==
    config.maxRetries = -1 =>
        /\ ev.op # "maxRetries"
        /\ denoExit = "exit1" => ev.op \in {"spawnFailed", "restartFailed"}
        /\ ev.op \in UnhealthyOps =>
              /\ ev.op \in RestartOps
              /\ ev.kill # 0 /\ ev.kill # ev.spawn
              /\ retryCount = unhealthyRun
        /\ ev.op = "restart" => ev.spawn = Len(procs) /\ process = ev.spawn

\* C3 witness: unlimited retries, and every spawn the bound allows beyond
\* the first has been a restart after an unhealthy probe.
C3_Witness ==
    /\ config.maxRetries = -1
    /\ ev.op = "restart"
    /\ unhealthyRun = MaxSpawns - 1

\* C4: once a caller's stop() has set the signal while a monitor loop
\* runs, that loop does not end on the failure path: start() does not fail
\* with "Max retries reached" and exit with status 1.
C4_CancelNeverFails ==
    [][\A i \in Starts :
          (aborted /\ pc[i] \in InMonitor) =>
              ~(pc'[i] = "failed" /\ ev'.op = "maxRetries")]_vars

\* C5: a stop() that finds a monitor in the interval wait ends that wait
\* and the monitor returns, with no probe or restart after it; no monitor
\* is ever in the wait, or enters it, with the signal set.
C5_StopEndsWait ==
    /\ [](aborted => \A i \in Starts : pc[i] # "waiting")
    /\ [][\A i \in Starts :
            /\ (pc[i] = "waiting" /\ ev'.op = "stop") =>
                  (pc'[i] = "returned" /\ i \in ev'.woke)
            /\ pc[i] = "returned" => pc'[i] = "returned"
            /\ (aborted /\ pc[i] \in {"starting", "grace"}) =>
                  pc'[i] \in {pc[i], "returned"}]_vars

\* C5 witness: stop() has just ended the wait of a monitor.
C5_Witness ==
    /\ ev.op = "stop"
    /\ \E i \in Starts : i \in ev.woke /\ pc[i] = "returned"

\* The children that run and that no kill() has been called on.
LiveUnkilled == {c \in 1..Len(procs) : ~procs[c].exited /\ ~procs[c].killed}

\* C6: at no instant are two spawned children alive without a kill
\* attempt, whatever the calls of start(), stop() and checkHealth().
C6_OneLiveChild == Cardinality(LiveUnkilled) <= 1

\* C7: a healthy monitor probe sets retryCount to 0 whatever it was, and
\* retryCount changes in no other way than by that reset and by +1 in an
\* unhealthy probe that restarts.
C7_RetryCountSteps ==
    [][/\ ev'.op = "healthy" => retryCount' = 0
       /\ retryCount' # retryCount =>
            \/ ev'.op = "healthy" /\ retryCount' = 0
            \/ ev'.op \in RestartOps /\ retryCount' = retryCount + 1
       /\ ev'.op \in RestartOps => retryCount' = retryCount + 1]_vars

\* C7 witness: a healthy probe has just reset a counter that restarts had
\* raised to the most the bound allows.
C7_Witness ==
    /\ ev.op = "healthy"
    /\ ev.before = MaxSpawns - 1
    /\ retryCount = 0

\* No activation is between its spawn and the return of its monitor.
LoopsEnded ==
    \/ denoExit = "exit1"
    \/ \A i \in Starts : pc[i] \notin InMonitor \cup {"starting"}

\* C8: once the signal is set every monitor loop ends, and until it does
\* it begins no wait and no probe: at most the probe that was in flight
\* completes.
C8_CancelTerminates ==
    /\ aborted ~> LoopsEnded
    /\ [][aborted => \A i \in Starts :
            pc'[i] \in {"waiting", "probing"} => pc'[i] = pc[i]]_vars

\* C8 witness: the signal was set while a probe was in flight; the probe
\* has come back and its loop has returned.
C8_Witness ==
    /\ aborted
    /\ ev.op = "healthy"
    /\ pc[ev.by] = "returned"
    /\ LoopsEnded

\* C9: the HTTP probe answers false when fetch() throws; otherwise with a
\* configured set it answers whether the status is in the set, 2xx or
\* not, and without one whether the status is in 200..299.
C9_HttpVerdict ==
    (config.healthCheckUrl /\ ev.op = "checkHealth") =>
        /\ ev.outcome.threw => ~ev.verdict
        /\ ~ev.outcome.threw =>
              IF config.expectedStatusCodes.defined
              THEN ev.verdict <=> ev.outcome.status \in config.expectedStatusCodes.codes
              ELSE ev.verdict <=> ev.outcome.status \in 200..299
        /\ (~ev.outcome.threw /\ ev.outcome.status = 200
               /\ config.expectedStatusCodes = [defined |-> TRUE, codes |-> {201, 204}])
              => ~ev.verdict
        /\ (~ev.outcome.threw /\ ev.outcome.status = 201
               /\ config.expectedStatusCodes = [defined |-> TRUE, codes |-> {200, 201, 204}])
              => ev.verdict

\* C9 witness: the set {201, 204} is configured and a 200 was answered.
C9_Witness ==
    /\ config.healthCheckUrl
    /\ config.expectedStatusCodes = [defined |-> TRUE, codes |-> {201, 204}]
    /\ ev.op = "checkHealth"
    /\ ~ev.outcome.threw
    /\ ev.outcome.status = 200

\* C10: with no probe configured checkHealth() answers at once, and true
\* exactly when a child has been spawned and has not exited: false before
\* any start, true right after a spawn, false once the child has exited,
\* by itself or from the kill of stop().
C10_LivenessVerdict ==
    ~ProbeAwaitsIO =>
        /\ ev.op = "checkHealth" =>
              (ev.verdict <=> (process # 0 /\ ~procs[process].exited))
        /\ process = 0 => ~checkHealth(NoOutcome)
        /\ ev.op \in {"start", "restart"} => checkHealth(NoOutcome)
        /\ (process # 0 /\ procs[process].exited) => ~checkHealth(NoOutcome)
        /\ \A i \in Starts : pc[i] # "probing"
        /\ Running => ENABLED CheckHealthCall

\* C10 witness: stop() has killed the child, the child has exited, and a
\* call of checkHealth() has answered false.
C10_Witness ==
    /\ ~ProbeAwaitsIO
    /\ ev.op = "checkHealth"
    /\ ~ev.verdict
    /\ aborted
    /\ process # 0
    /\ procs[process].killed /\ procs[process].exited

\* C11: the command probe answers true exactly when the health command
\* was launched and exited with status zero; a non-zero exit and a failed
\* launch both give false, and neither ends the process.
C11_CommandVerdict ==
    (~config.healthCheckUrl /\ config.healthCheckCommand /\ ev.op = "checkHealth") =>
        /\ ev.verdict \in BOOLEAN
        /\ ev.verdict <=> (~ev.outcome.threw /\ ev.outcome.success)
        /\ ev.outcome.threw => ~ev.verdict
        /\ denoExit = "none"

\* C11 witness: the health command was launched and exited non-zero.
C11_Witness ==
    /\ ~config.healthCheckUrl /\ config.healthCheckCommand
    /\ ev.op = "checkHealth"
    /\ ~ev.outcome.threw /\ ~ev.outcome.success
    /\ ~ev.verdict

\* The steps in which command.spawn() throws.
SpawnFailOps == {"spawnFailed", "restartFailed"}

\* C12: a spawn failure, in start() or in a restart of the monitor, leaves
\* monitor() and start() (exit with status 1) without a new child, and no
\* probe, wait or spawn follows it.
C12_SpawnFailureFatal ==
    /\ [](ev.op \in SpawnFailOps =>
            /\ denoExit = "exit1"
            /\ pc[ev.by] = "failed"
            /\ ev.spawn = 0)
    /\ [][ev.op \notin SpawnFailOps]_vars

\* C12 witness: the spawn of a restart has failed after an unhealthy probe.
C12_Witness ==
    /\ ev.op = "restartFailed"
    /\ retryCount = 1
    /\ denoExit = "exit1"

\* The fields of the supervisor, without the record of the last step.
Supervisor == <<config, process, procs, retryCount, aborted, pc, denoExit>>

\* C13: every stop() completes without an error, leaves the signal set,
\* the current child signalled unless it has exited, and retryCount as it
\* was; a stop() that follows a stop() changes nothing at all.
C13_StopIdempotent ==
    [][/\ ev'.op \in StopOps =>
            /\ ev'.op = "stop"
            /\ aborted'
            /\ retryCount' = retryCount /\ process' = process
            /\ (process # 0 /\ ~procs[process].exited) => procs'[process].killed
       /\ (ev.op \in StopOps /\ ev'.op \in StopOps) => Supervisor' = Supervisor]_vars

\* C13 witness: stop() was called twice in a row with a child running.
C13_Witness ==
    /\ ev.op = "stop"
    /\ ev.stops = 2
    /\ aborted
    /\ process # 0 /\ procs[process].killed /\ ~procs[process].exited

\* The last step called kill() on a child that had exited: kill() threw.
KillFailed ==
    /\ ev.kill # 0
    /\ procs[ev.kill].exited
    /\ ~procs[ev.kill].killed

\* C17: an error thrown by kill() never surfaces. stop() completes with
\* the signal set, and the restart path goes on to startProcess() and, the
\* spawn succeeding, to the next iteration of the loop.
C17_KillFailureSwallowed ==
    /\ ev.op \notin {"stopRaised", "killRaised"}
    /\ KillFailed =>
          /\ ev.op \in {"stop", "maxRetries"} \cup RestartOps
          /\ ev.op = "stop" => aborted /\ denoExit = "none"
          /\ ev.op = "restart" =>
                /\ ev.spawn = Len(procs) /\ process = ev.spawn
                /\ pc[ev.by] = "grace"
                /\ denoExit = "none"

\* C17 witness: the child had exited when the monitor restarted it; the
\* new child runs and the loop is in its delay.
C17_Witness ==
    /\ KillFailed
    /\ ev.op = "restart"
    /\ pc[ev.by] = "grace"
    /\ ~procs[process].exited

\* The option is given as a non-negative decimal integer.
GivenNatural == args.given /\ IsDigits(args.text)

\* C14: --max-retries N makes maxRetries N for every integer N >= 0, so
\* that no more than N restarts are attempted in a row; without the option
\* maxRetries is -1.
C14_MaxRetriesOption ==
    /\ GivenNatural =>
          /\ config.maxRetries = DecimalValue(args.text)
          /\ retryCount <= DecimalValue(args.text)
    /\ ~args.given => config.maxRetries = -1

\* C15: with a ceiling maxRetries >= 0, retryCount stays within
\* 0..maxRetries in every state.
C15_RetryCountBounded ==
    config.maxRetries >= 0 =>
        (0 <= retryCount /\ retryCount <= config.maxRetries)

\* C15 witness: the ceiling is reached, by restarts after unhealthy probes.
C15_Witness ==
    /\ config.maxRetries = MaxBudget
    /\ retryCount = MaxBudget
    /\ ev.op = "restart"

\* The activations with a monitor probe in flight, and those in the
\* delay of a restart.
Probing == {i \in Starts : pc[i] = "probing"}
Restarting == {i \in Starts : pc[i] = "grace"}

\* C16: at no time are two monitor probes in flight, or two restarts, or
\* a monitor probe and a restart together, whatever the calls made.
C16_OneLoop ==
    /\ Cardinality(Probing) <= 1
    /\ Cardinality(Restarting) <= 1
    /\ Probing = {} \/ Restarting = {}

\* C19: a caller's checkHealth() changes nothing but its answer: not
\* retryCount, not the child handle or the children, not the signal, not
\* the position of any loop, whatever the verdict and the strategy.
C19_CheckHealthReadOnly ==
    [][ev'.op = "checkHealth" => Supervisor' = Supervisor]_vars

\* C19 witness: a caller has had a healthy verdict while retryCount was
\* above 0.
C19_Witness ==
    /\ ev.op = "checkHealth"
    /\ ev.verdict
    /\ retryCount > 0

\* The positions between a spawn and the end of its 100 ms delay.
InGrace == {"starting", "grace"}

\* The steps of an activation that are not a monitor probe: start() and
\* the end of the delay.
SetupOps == {"start", "spawnFailed", "graceDone"}

\* The step is the interval timer of an activation firing: its monitor
\* calls checkHealth().
ProbeBegins ==
    /\ ev'.by # 0
    /\ ev'.op \notin SetupOps
    /\ pc[ev'.by] # "probing"

\* C18: a monitor calls checkHealth() only out of its interval wait, the
\* wait begins only when a delay after a spawn ends or a probe comes back
\* healthy, and no monitor probes while the delay of a spawn is running.
C18_ProbeAfterGraceAndWait ==
    [][/\ ProbeBegins =>
            /\ pc[ev'.by] = "waiting"
            /\ \A j \in Starts : pc[j] \notin InGrace
       /\ \A i \in Starts :
            (pc'[i] = "waiting" /\ pc[i] # "waiting") =>
                /\ ev'.op \in {"graceDone", "healthy"}
                /\ ev'.by = i]_vars

\* The positions of an activation that has not entered monitor().
BeforeMonitor == {"idle", "starting"}

\* C20: no step clears the cancellation signal, and once it is set an
\* activation of start() that has not yet entered its loop never does: it
\* spawns, waits for the delay and returns at the first test of the
\* signal, with no probe and no restart.
C20_SignalPermanent ==
    [][aborted =>
        /\ aborted'
        /\ \A i \in Starts : pc[i] \in BeforeMonitor =>
            /\ pc'[i] \in BeforeMonitor \cup {"returned", "failed"}
            /\ ev'.by = i => ev'.op \in SetupOps]_vars

\* C20 witness: after stop() ended the first loop, start() was called
\* again and its monitor has returned at the first test of the signal.
C20_Witness ==
    /\ aborted
    /\ pc[1] = "returned"
    /\ pc[2] = "returned"
    /\ ev.op = "graceDone"
    /\ ev.by = 2
    /\ Len(procs) = 2
    /\ process = 2
    /\ ~procs[2].killed

====
